---------------------------- MODULE Spec2Model ----------------------------
(***************************************************************************)
(* Model of main.py, the Phone Number Lookup API: the token check, the      *)
(* memoized country resolver, the number-type labels and the three          *)
(* protected routes (/lookup, /validate, /supported-countries).             *)
(*                                                                          *)
(* Strings are sequences of code points, so that startswith, upper and the  *)
(* ordering used by sorted() are computed as Python computes them.          *)
(* Optional[T] is a set: {} is None and {x} is the value x.                 *)
(***************************************************************************)
EXTENDS Integers, Sequences, FiniteSets, TLC

VARIABLES
    API_TOKEN,  \* the configured secret (main.py:15)
    table,      \* pycountry.countries: the reference table, in iteration order
    cache,      \* the lru_cache of get_country_info, least recently used first
    request,    \* the request being answered
    response,   \* the answer to it
    calls,      \* what the handler's library calls were given and returned
    last,       \* the latest direct call of get_country_info
    prev,       \* the direct call before it
    first       \* per argument, the result of its first direct call

vars == <<API_TOKEN, table, cache, request, response, calls, last, prev, first>>

---------------------------------------------------------------------------
(* Optional values *)

None == {}

Some(x) == {x}

TheVal(o) == CHOOSE x \in o : TRUE

---------------------------------------------------------------------------
(* Strings as sequences of code points *)

\* '+'
Plus == 43

\* str.startswith for a one-character prefix
startswith(s, c) == Len(s) >= 1 /\ s[1] = c

\* str.upper on ASCII text: a..z (97..122) move to A..Z, the rest stays
upper(s) == [i \in DOMAIN s |-> IF s[i] >= 97 /\ s[i] <= 122 THEN s[i] - 32 ELSE s[i]]

\* Python's str ordering: lexicographic on code points, a proper prefix first
RECURSIVE StrLE(_, _)
StrLE(a, b) ==
    IF a = <<>> THEN TRUE
    ELSE IF b = <<>> THEN FALSE
    ELSE IF Head(a) < Head(b) THEN TRUE
    ELSE IF Head(a) > Head(b) THEN FALSE
    ELSE StrLE(Tail(a), Tail(b))

US == <<85, 83>>
us == <<117, 115>>
GB == <<71, 66>>
GR == <<71, 82>>
FR == <<70, 82>>
ZZ == <<90, 90>>
\* "001", the region of non-geographical numbers
R001 == <<48, 48, 49>>

---------------------------------------------------------------------------
(* The reference country table *)

\* A pycountry record; the display names are shortened to a few code points.
Country(a2, nm) == [name |-> nm, alpha_2 |-> a2, alpha_3 |-> a2 \o <<88>>, numeric |-> <<48>> \o a2]

\* The table the request handling is checked against: GB "UK", GR "Gr", US "US".
DefaultTable == << Country(GB, <<85, 75>>), Country(GR, <<71, 114>>), Country(US, <<85, 83>>) >>

\* pycountry.countries.get(alpha_2=...): the record with that alpha_2, or None
countries_get(tbl, a2) == { tbl[i] : i \in { j \in DOMAIN tbl : tbl[j].alpha_2 = a2 } }

---------------------------------------------------------------------------
(* get_country_info and its lru_cache *)

\* Stand-in for lru_cache's maxsize (256 in main.py:89), scaled so that
\* eviction happens within the explored codes.
MaxSize == 2

\* The body of get_country_info: None.upper() raises, which the except clause
\* turns into None; an unknown code gives None; a known one gives the dict.
get_country_info_body(tbl, country_code) ==
    IF country_code = None THEN None
    ELSE LET country == countries_get(tbl, upper(TheVal(country_code)))
         IN  IF country = {} THEN None
             ELSE LET c == TheVal(country)
                  IN  Some([name |-> c.name, alpha_2 |-> c.alpha_2,
                            alpha_3 |-> c.alpha_3, numeric |-> c.numeric])

\* lru_cache keys an entry by the call's argument as it was passed.
cache_key(country_code) == country_code

CacheIndex(c, key) == { i \in DOMAIN c : c[i].key = key }

Without(c, i) == [j \in 1..(Len(c) - 1) |-> IF j < i THEN c[j] ELSE c[j + 1]]

\* Mutant of lru_trim: the cache is never trimmed.
lru_trim_never(c) == c

\* A full cache drops its least recently used entry when one is added.
lru_trim(c) == IF Len(c) > MaxSize THEN Tail(c) ELSE c

\* One call of the decorated get_country_info: a hit returns the stored value
\* and makes the entry the most recent; a miss runs the body and stores it.
get_country_info(c, tbl, country_code) ==
    LET key == cache_key(country_code)
        hit == CacheIndex(c, key)
    IN  IF hit # {}
        THEN LET i == TheVal(hit)
             IN  [cache |-> Append(Without(c, i), c[i]), result |-> c[i].val, queried |-> FALSE]
        ELSE LET v == get_country_info_body(tbl, country_code)
             IN  [cache |-> lru_trim(Append(c, [key |-> key, val |-> v])),
                  result |-> v, queried |-> TRUE]

---------------------------------------------------------------------------
(* get_number_type_name *)

\* phonenumbers.PhoneNumberType, the library's enumeration of line types
PhoneNumberType ==
    [FIXED_LINE |-> 0, MOBILE |-> 1, FIXED_LINE_OR_MOBILE |-> 2, TOLL_FREE |-> 3,
     PREMIUM_RATE |-> 4, SHARED_COST |-> 5, VOIP |-> 6, PERSONAL_NUMBER |-> 7,
     PAGER |-> 8, UAN |-> 9, VOICEMAIL |-> 10, UNKNOWN |-> 99]

NUMBER_TYPE_MAPPING ==
    (PhoneNumberType.MOBILE :> "MOBILE")
    @@ (PhoneNumberType.FIXED_LINE :> "FIXED_LINE")
    @@ (PhoneNumberType.FIXED_LINE_OR_MOBILE :> "FIXED_LINE_OR_MOBILE")
    @@ (PhoneNumberType.TOLL_FREE :> "TOLL_FREE")
    @@ (PhoneNumberType.PREMIUM_RATE :> "PREMIUM_RATE")
    @@ (PhoneNumberType.SHARED_COST :> "SHARED_COST")
    @@ (PhoneNumberType.VOIP :> "VOIP")
    @@ (PhoneNumberType.PERSONAL_NUMBER :> "PERSONAL_NUMBER")
    @@ (PhoneNumberType.PAGER :> "PAGER")
    @@ (PhoneNumberType.UAN :> "UAN")
    @@ (PhoneNumberType.UNKNOWN :> "UNKNOWN")

\* Mutant of get_number_type_name: the default label is the empty string.
get_number_type_name_nodefault(number_type) ==
    IF number_type \in DOMAIN NUMBER_TYPE_MAPPING THEN NUMBER_TYPE_MAPPING[number_type]
    ELSE ""

\* dict.get(number_type, "UNKNOWN")
get_number_type_name(number_type) ==
    IF number_type \in DOMAIN NUMBER_TYPE_MAPPING THEN NUMBER_TYPE_MAPPING[number_type]
    ELSE "UNKNOWN"

---------------------------------------------------------------------------
(* validate_api_token *)

\* Mutant of validate_api_token: the empty credential is not rejected first.
validate_api_token_unguarded(x_api_token) ==
    x_api_token # None /\ TheVal(x_api_token) = API_TOKEN

validate_api_token(x_api_token) ==
    IF x_api_token = None \/ TheVal(x_api_token) = "" THEN FALSE
    ELSE TheVal(x_api_token) = API_TOKEN

---------------------------------------------------------------------------
(* The numbering-plan library, a black box: what one parse and the calls on *)
(* its result may give.                                                     *)

\* is_valid_number and is_possible_number of one number: validity is the
\* stricter of the two checks.
LibChecks == { ch \in [valid : BOOLEAN, possible : BOOLEAN] : ch.valid => ch.possible }

\* A parsed number, by what the library's calls return for it.
LibNumbers ==
    [region : {Some(US), Some(R001), None},
     ntype : {PhoneNumberType.MOBILE, PhoneNumberType.VOICEMAIL},
     checks : LibChecks,
     digits : {<<49, 52>>}]

\* The call on the parsed number that raises, if one does.
LibFaults == {"none", "region_code_for_number", "number_type", "is_valid_number",
              "is_possible_number", "format_number"}

NoNumber == [region |-> None, ntype |-> PhoneNumberType.UNKNOWN,
             checks |-> [valid |-> FALSE, possible |-> FALSE], digits |-> <<>>]

\* parse raises NumberParseException (with its message), raises something
\* else, or returns a number.
LibOutcomes ==
    { [parse |-> "NumberParseException", msg |-> "(1) The string supplied did not seem to be a phone number.",
       number |-> NoNumber, fault |-> "none"],
      [parse |-> "Exception", msg |-> "", number |-> NoNumber, fault |-> "none"] }
    \cup { [parse |-> "ok", msg |-> "", number |-> n, fault |-> f] : n \in LibNumbers, f \in LibFaults }

NoLib == [parse |-> "none", msg |-> "", number |-> NoNumber, fault |-> "none"]

\* format_number(parsed_number, E164) and (.., NATIONAL), str(parsed_number)
format_e164(n) == <<Plus>> \o n.digits

format_national(n) == n.digits

str_number(n) == n.digits

---------------------------------------------------------------------------
(* Requests and responses *)

MinPhoneLength == 1

MaxCountryLength == 2

\* FastAPI's check of the declared parameters, before the handler runs:
\* Header(...) and Query(...) are required, phone has min_length, country max_length.
header_valid(req) == req.x_api_token # None

query_valid(req) ==
    /\ header_valid(req)
    /\ req.phone # None
    /\ Len(TheVal(req.phone)) >= MinPhoneLength
    /\ (req.country = None \/ Len(TheVal(req.country)) <= MaxCountryLength)

HTTPError(code, detail) == [status |-> code, detail |-> detail, body |-> None]

Ok(body) == [status |-> 200, detail |-> "", body |-> Some(body)]

\* FastAPI's answer to a request that fails the parameter check
Unprocessable == HTTPError(422, "request validation error")

\* the server's answer when the handler raises anything but an HTTPException
InternalError == HTTPError(500, "Internal Server Error")

Unauthorized == HTTPError(401, "Invalid or missing API token")

NoCalls == [entered |-> FALSE, text |-> <<>>, region |-> None, parse |-> "none",
            resolve_called |-> FALSE, resolved |-> None]

\* Mutant of coerce: only a missing hint counts as no hint, an empty one does not.
coerce_unhinted(phone, country) ==
    IF ~startswith(phone, Plus) /\ country = None THEN <<Plus>> \o phone ELSE phone

\* if not phone.startswith('+') and not country: phone = '+' + phone
coerce(phone, country) ==
    IF ~startswith(phone, Plus) /\ (country = None \/ TheVal(country) = <<>>)
    THEN <<Plus>> \o phone
    ELSE phone

Parsing(req, lib) ==
    [NoCalls EXCEPT !.entered = TRUE, !.text = coerce(TheVal(req.phone), req.country),
                    !.region = req.country, !.parse = lib.parse]

---------------------------------------------------------------------------
(* The handlers: each gives the response, the cache afterwards and the      *)
(* record of its library calls.                                             *)

Answer(resp, c, cl) == [response |-> resp, cache |-> c, calls |-> cl]

\* Mutant of lookup_result: the two checks land in each other's field.
lookup_result_swapped(lib, country_code, country_info) ==
    IF lib.fault # "none" THEN InternalError
    ELSE Ok([phone_number |-> str_number(lib.number),
             country_code |-> country_code,
             country_name |-> TheVal(country_info).name,
             country_region |-> None,
             number_type |-> get_number_type_name(lib.number.ntype),
             is_valid |-> lib.number.checks.possible,
             is_possible |-> lib.number.checks.valid,
             formatted_e164 |-> format_e164(lib.number),
             formatted_national |-> format_national(lib.number),
             timezone |-> None])

\* main.py:157-177, once the country is known: any library call that raises
\* ends the request with the server's 500.
lookup_result(lib, country_code, country_info) ==
    IF lib.fault # "none" THEN InternalError
    ELSE Ok([phone_number |-> str_number(lib.number),
             country_code |-> country_code,
             country_name |-> TheVal(country_info).name,
             country_region |-> None,
             number_type |-> get_number_type_name(lib.number.ntype),
             is_valid |-> lib.number.checks.valid,
             is_possible |-> lib.number.checks.possible,
             formatted_e164 |-> format_e164(lib.number),
             formatted_national |-> format_national(lib.number),
             timezone |-> None])

\* Mutant of lookup_country: the missing country is not checked, so reading
\* its name raises and the request ends in the server's 500.
lookup_country_unchecked(lib, country_code, country_info) ==
    IF country_info = None THEN InternalError
    ELSE lookup_result(lib, TheVal(country_code), country_info)

\* if not country_info: raise HTTPException(status_code=404, ...)
lookup_country(lib, country_code, country_info) ==
    IF country_info = None THEN HTTPError(404, "Country not found: {country_code}")
    ELSE lookup_result(lib, TheVal(country_code), country_info)

lookup_phone_number(req, lib, c, tbl) ==
    IF ~validate_api_token(req.x_api_token) THEN Answer(Unauthorized, c, NoCalls)
    ELSE LET cl == Parsing(req, lib)
         IN  IF lib.parse = "NumberParseException"
             THEN Answer(HTTPError(400, "Invalid phone number format"), c, cl)
             ELSE IF lib.parse = "Exception"
             THEN Answer(HTTPError(400, "Error parsing phone number"), c, cl)
             ELSE IF lib.fault = "region_code_for_number"
             THEN Answer(InternalError, c, cl)
             ELSE LET country_code == lib.number.region
                      r == get_country_info(c, tbl, country_code)
                  IN  Answer(lookup_country(lib, country_code, r.result), r.cache,
                             [cl EXCEPT !.resolve_called = TRUE, !.resolved = r.result])

\* The except clause of validate_phone_number (main.py:211-219)
validation_failure(phone, msg) ==
    [phone |-> phone, is_valid |-> FALSE, is_possible |-> FALSE, country_code |-> None,
     error |-> Some(msg)]

\* The try block's result (main.py:204-210)
validation_success(phone, n) ==
    [phone |-> phone, is_valid |-> n.checks.valid, is_possible |-> n.checks.possible,
     country_code |-> n.region, error |-> None]

\* Only NumberParseException is caught; parse, is_valid_number,
\* is_possible_number and region_code_for_number are all inside the try.
validate_phone_number(req, lib, c) ==
    IF ~validate_api_token(req.x_api_token) THEN Answer(Unauthorized, c, NoCalls)
    ELSE LET cl == Parsing(req, lib)
         IN  IF lib.parse = "NumberParseException"
             THEN Answer(Ok(validation_failure(cl.text, lib.msg)), c, cl)
             ELSE IF lib.parse = "Exception"
             THEN Answer(InternalError, c, cl)
             ELSE IF lib.fault \in {"is_valid_number", "is_possible_number", "region_code_for_number"}
             THEN Answer(InternalError, c, cl)
             ELSE Answer(Ok(validation_success(cl.text, lib.number)), c, cl)

\* CountryInfo(name=..., alpha_2=..., alpha_3=..., numeric=...)
CountryInfo(country) ==
    [name |-> country.name, alpha_2 |-> country.alpha_2, alpha_3 |-> country.alpha_3,
     numeric |-> country.numeric]

\* Where x goes in the sorted list s: after every element not greater than it.
RECURSIVE insert_by_name(_, _)
insert_by_name(s, x) ==
    IF s = <<>> THEN <<x>>
    ELSE IF StrLE(Head(s).name, x.name) THEN <<Head(s)>> \o insert_by_name(Tail(s), x)
    ELSE <<x>> \o s

\* Mutant of sorted_by_name: the list is returned in table order.
sorted_by_name_asis(s) == s

\* sorted(countries, key=lambda x: x.name): ascending and stable
RECURSIVE sorted_by_name(_)
sorted_by_name(s) ==
    IF s = <<>> THEN <<>>
    ELSE insert_by_name(sorted_by_name(SubSeq(s, 1, Len(s) - 1)), s[Len(s)])

get_supported_countries(req, c, tbl) ==
    IF ~validate_api_token(req.x_api_token) THEN Answer(Unauthorized, c, NoCalls)
    ELSE LET countries == [i \in DOMAIN tbl |-> CountryInfo(tbl[i])]
             countries_sorted == sorted_by_name(countries)
         IN  Answer(Ok([total |-> Len(countries_sorted), countries |-> countries_sorted]), c, NoCalls)

---------------------------------------------------------------------------
(* The requests tried *)

DefaultToken == "dev-token-change-in-production"

Tokens == { None, Some(""), Some(DefaultToken), Some("s3cret") }

\* missing, "", "+14", "14"
Phones == { None, Some(<<>>), Some(<<Plus, 49, 52>>), Some(<<49, 52>>) }

\* missing, "", "US", "USA"
Hints == { None, Some(<<>>), Some(US), Some(<<85, 83, 65>>) }

Requests(route) ==
    { [route |-> route, x_api_token |-> t, phone |-> p, country |-> h] :
        t \in Tokens, p \in Phones, h \in Hints }

ListRequests ==
    { [route |-> "supported-countries", x_api_token |-> t, phone |-> None, country |-> None] :
        t \in Tokens }

NoRequest == [route |-> "none", x_api_token |-> None, phone |-> None, country |-> None]

NoResponse == [status |-> 0, detail |-> "", body |-> None]

NoCall == [made |-> FALSE, code |-> None, result |-> None, queried |-> FALSE, again |-> FALSE]

Unseen == [seen |-> FALSE, result |-> None]

\* The arguments get_country_info is called with directly: every region a
\* lookup passes (a known code, "001", None), a known code in lower case,
\* another known code and an unknown one.
ResolveArgs == { Some(US), Some(us), Some(GB), Some(ZZ), Some(R001), None }

\* The library is reached only by a request that passes the parameter check
\* and the token check.
LibFor(req) ==
    IF query_valid(req) /\ validate_api_token(req.x_api_token) THEN LibOutcomes ELSE {NoLib}

---------------------------------------------------------------------------
(* Actions *)

Respond(req, ans) ==
    /\ request' = req
    /\ response' = ans.response
    /\ cache' = ans.cache
    /\ calls' = ans.calls
    /\ UNCHANGED <<API_TOKEN, table, last, prev, first>>

\* GET /lookup
Lookup(req) ==
    \E lib \in LibFor(req) :
        Respond(req, IF query_valid(req) THEN lookup_phone_number(req, lib, cache, table)
                     ELSE Answer(Unprocessable, cache, NoCalls))

\* GET /validate
Validate(req) ==
    \E lib \in LibFor(req) :
        Respond(req, IF query_valid(req) THEN validate_phone_number(req, lib, cache)
                     ELSE Answer(Unprocessable, cache, NoCalls))

\* GET /supported-countries
SupportedCountries(req) ==
    Respond(req, IF header_valid(req) THEN get_supported_countries(req, cache, table)
                 ELSE Answer(Unprocessable, cache, NoCalls))

\* A direct call of get_country_info(code)
Resolve(code) ==
    LET r == get_country_info(cache, table, code)
    IN  /\ cache' = r.cache
        /\ prev' = last
        /\ last' = [made |-> TRUE, code |-> code, result |-> r.result, queried |-> r.queried,
                    again |-> r.queried /\ first[code].seen]
        /\ first' = IF first[code].seen THEN first
                    ELSE [first EXCEPT ![code] = [seen |-> TRUE, result |-> r.result]]
        /\ UNCHANGED <<API_TOKEN, table, request, response, calls>>

---------------------------------------------------------------------------
(* Specifications *)

InitIdle ==
    /\ cache = <<>>
    /\ request = NoRequest
    /\ response = NoResponse
    /\ calls = NoCalls
    /\ last = NoCall
    /\ prev = NoCall
    /\ first = [a \in ResolveArgs |-> Unseen]

\* The service, started with the default token and the default table.
Init ==
    /\ API_TOKEN = DefaultToken
    /\ table = DefaultTable
    /\ InitIdle

Next ==
    \/ \E req \in Requests("lookup") : Lookup(req)
    \/ \E req \in Requests("validate") : Validate(req)
    \/ \E req \in ListRequests : SupportedCountries(req)

Spec == Init /\ [][Next]_vars

\* get_country_info called directly, any argument in any order.
NextResolve == \E code \in ResolveArgs : Resolve(code)

SpecResolve == Init /\ [][NextResolve]_vars

\* validate_api_token called directly, under any configured secret.
Secrets == { "", DefaultToken, "s3cret", "S3cret", "s3cret ", "a", "b", "ab", "token", "0" }

AuthArgs == { None } \cup { Some(t) : t \in Secrets \cup {"wrong"} }

Authenticate(x) ==
    /\ request' = [route |-> "authenticate", x_api_token |-> x]
    /\ response' = [status |-> 0, detail |-> "", body |-> Some(validate_api_token(x))]
    /\ UNCHANGED <<API_TOKEN, table, cache, calls, last, prev, first>>

InitAuth ==
    /\ API_TOKEN \in Secrets
    /\ table = DefaultTable
    /\ InitIdle

NextAuth == \E x \in AuthArgs : Authenticate(x)

SpecAuth == InitAuth /\ [][NextAuth]_vars

\* get_number_type_name called directly, on the integers around the enumeration.
TypeSpan == 3

TypeArgs == (0 - TypeSpan)..(PhoneNumberType.UNKNOWN + TypeSpan)

Classify(x) ==
    /\ request' = [route |-> "classify", number_type |-> x]
    /\ response' = [status |-> 0, detail |-> "", body |-> Some(get_number_type_name(x))]
    /\ UNCHANGED <<API_TOKEN, table, cache, calls, last, prev, first>>

NextClassify == \E x \in TypeArgs : Classify(x)

SpecClassify == Init /\ [][NextClassify]_vars

\* /supported-countries over every table of up to MaxTable records with
\* distinct alpha_2 codes, in any iteration order.
MaxTable == 3

ListCodes == { US, GB, GR, FR }

\* "A", "AB", "B", "a"
ListNames == { <<65>>, <<65, 66>>, <<66>>, <<97>> }

Tables ==
    UNION { { t \in [1..n -> { Country(a, nm) : a \in ListCodes, nm \in ListNames }] :
                \A i, j \in 1..n : i # j => t[i].alpha_2 # t[j].alpha_2 } : n \in 0..MaxTable }

InitList ==
    /\ API_TOKEN = DefaultToken
    /\ table \in Tables
    /\ InitIdle

NextList == \E req \in ListRequests : SupportedCountries(req)

SpecList == InitList /\ [][NextList]_vars

---------------------------------------------------------------------------
(* Claims *)

Protected == {"lookup", "validate", "supported-countries"}

Authenticated == request.x_api_token # None /\ TheVal(request.x_api_token) = API_TOKEN /\ API_TOKEN # ""

\* C1 (as claimed): an authenticated /validate request with well-formed
\* parameters is always answered with a ValidationResult, and when the parse
\* did not succeed that result has is_valid and is_possible false, no
\* country_code and a non-empty error, whichever way the parse failed.
C1_ValidateNeverFailsOutward ==
    (request.route = "validate" /\ query_valid(request) /\ Authenticated)
        => /\ response.status = 200
           /\ calls.parse # "ok" =>
                LET b == TheVal(response.body)
                IN  /\ b.is_valid = FALSE
                    /\ b.is_possible = FALSE
                    /\ b.country_code = None
                    /\ b.error # None /\ TheVal(b.error) # ""

\* C2: /lookup answers 200 with a complete PhoneNumberInfo only when the
\* phone was parsed and get_country_info gave a record for its region; a
\* failed parse is answered 400; a parsed number whose region
\* get_country_info does not resolve (an unknown code, no region at all, a
\* lookup that raised) is answered 404, with no body.
C2_LookupErrors ==
    (request.route = "lookup" /\ calls.entered)
        => /\ response.status = 200 =>
                /\ calls.parse = "ok" /\ calls.resolve_called /\ calls.resolved # None
                /\ response.body # None
                /\ DOMAIN TheVal(response.body) =
                      {"phone_number", "country_code", "country_name", "country_region",
                       "number_type", "is_valid", "is_possible", "formatted_e164",
                       "formatted_national", "timezone"}
                /\ TheVal(response.body).country_name = TheVal(calls.resolved).name
           /\ calls.parse \in {"NumberParseException", "Exception"} =>
                response.status = 400 /\ response.body = None
           /\ (calls.parse = "ok" /\ calls.resolve_called /\ calls.resolved = None) =>
                response.status = 404 /\ response.body = None

\* C2's case: a parsed number with no region at all, answered 404.
C2_Witness ==
    /\ request.route = "lookup"
    /\ calls.parse = "ok" /\ calls.resolve_called /\ calls.resolved = None
    /\ response.status = 404
    /\ \E i \in DOMAIN cache : cache[i].key = None

\* C3 (as claimed): a request to a protected route whose token header is
\* missing, empty or not the configured secret is answered 401 with the
\* generic message. Stated here for the requests whose other parameters are
\* well-formed, the case the claim is surest of.
C3_BadTokenIs401 ==
    (request.route \in Protected /\ ~Authenticated
        /\ (request.route = "supported-countries"
             \/ query_valid([request EXCEPT !.x_api_token = Some(API_TOKEN)])))
        => response = Unauthorized

\* C4 (as claimed): validate_api_token is false for an absent or empty
\* credential, true for the configured secret, whatever that secret is, and
\* false for anything else.
C4_AuthenticateAnySecret ==
    request.route = "authenticate" =>
        LET x == request.x_api_token
            r == TheVal(response.body)
        IN  /\ x = None => ~r
            /\ x = Some("") => ~r
            /\ x = Some(API_TOKEN) => r
            /\ (x # None /\ x # Some(API_TOKEN)) => ~r

\* C4 (amended): validate_api_token is false for an absent or empty
\* credential, true for a credential equal to a non-empty configured secret,
\* and false for anything else; an empty configured secret admits nobody.
C4_Authenticate ==
    request.route = "authenticate" =>
        LET x == request.x_api_token
            r == TheVal(response.body)
        IN  /\ x = None => ~r
            /\ x = Some("") => ~r
            /\ (API_TOKEN # "" /\ x = Some(API_TOKEN)) => r
            /\ (x # None /\ x # Some(API_TOKEN)) => ~r

\* C4's case: the configured secret was presented and accepted.
C4_Witness ==
    /\ request.route = "authenticate"
    /\ request.x_api_token = Some(API_TOKEN)
    /\ API_TOKEN = "s3cret"
    /\ response.body = Some(TRUE)

\* C5: every PhoneNumberInfo and every ValidationResult, from the success
\* path or the parse-failure path, has is_possible true when is_valid is.
C5_ValidImpliesPossible ==
    (request.route \in {"lookup", "validate"} /\ response.status = 200)
        => (TheVal(response.body).is_valid => TheVal(response.body).is_possible)

\* C5's case: a lookup that reports a valid number.
C5_Witness ==
    /\ request.route = "lookup"
    /\ response.status = 200
    /\ TheVal(response.body).is_valid
    /\ TheVal(response.body).is_possible

\* C6 (as claimed): of two consecutive calls of get_country_info whose codes
\* are the same once uppercased, the second returns what the first returned
\* and is a cache hit: it does not query the table.
C6_ResolveIdempotentNormalized ==
    (prev.made /\ last.made /\ prev.code # None /\ last.code # None
        /\ upper(TheVal(prev.code)) = upper(TheVal(last.code)))
        => (last.result = prev.result /\ ~last.queried)

\* C7: the cache never holds more than its maximum number of entries, and a
\* call always returns what the first call with that argument returned, also
\* when the entry was evicted in between and is computed again.
C7_CacheBounded ==
    /\ Len(cache) <= MaxSize
    /\ last.made => (first[last.code].seen /\ last.result = first[last.code].result)

\* C7's case: a full cache, and an argument resolved before, evicted since,
\* and just computed again from the table, here with a record as its result.
C7_Witness ==
    /\ Len(cache) = MaxSize
    /\ last.made /\ last.again
    /\ last.result # None

\* C8: an authenticated /supported-countries returns one record per table
\* entry, ascending by name, with total the length of the list and no two
\* records with the same alpha_2.
C8_ListSorted ==
    (request.route = "supported-countries" /\ Authenticated)
        => /\ response.status = 200
           /\ LET b == TheVal(response.body)
                  cs == b.countries
              IN  /\ b.total = Len(cs)
                  /\ Len(cs) = Len(table)
                  /\ \A i \in DOMAIN table : \E j \in DOMAIN cs : cs[j] = CountryInfo(table[i])
                  /\ \A i, j \in DOMAIN cs : i < j => StrLE(cs[i].name, cs[j].name)
                  /\ \A i, j \in DOMAIN cs : i # j => cs[i].alpha_2 # cs[j].alpha_2

\* C8's case: a table of three records that is not in name order.
C8_Witness ==
    /\ request.route = "supported-countries"
    /\ response.status = 200
    /\ Len(table) = 3
    /\ ~StrLE(table[1].name, table[2].name)
    /\ TheVal(response.body).total = 3

\* C9: each of the eleven mapped line types gets the label of its own name
\* and every other integer gets "UNKNOWN".
C9_ClassifyTotal ==
    request.route = "classify" =>
        LET x == request.number_type
            l == TheVal(response.body)
            T == PhoneNumberType
        IN  /\ x = T.MOBILE => l = "MOBILE"
            /\ x = T.FIXED_LINE => l = "FIXED_LINE"
            /\ x = T.FIXED_LINE_OR_MOBILE => l = "FIXED_LINE_OR_MOBILE"
            /\ x = T.TOLL_FREE => l = "TOLL_FREE"
            /\ x = T.PREMIUM_RATE => l = "PREMIUM_RATE"
            /\ x = T.SHARED_COST => l = "SHARED_COST"
            /\ x = T.VOIP => l = "VOIP"
            /\ x = T.PERSONAL_NUMBER => l = "PERSONAL_NUMBER"
            /\ x = T.PAGER => l = "PAGER"
            /\ x = T.UAN => l = "UAN"
            /\ x = T.UNKNOWN => l = "UNKNOWN"
            /\ x \notin {T.MOBILE, T.FIXED_LINE, T.FIXED_LINE_OR_MOBILE, T.TOLL_FREE,
                         T.PREMIUM_RATE, T.SHARED_COST, T.VOIP, T.PERSONAL_NUMBER,
                         T.PAGER, T.UAN, T.UNKNOWN} => l = "UNKNOWN"

\* C9's case: a line type of the library that the mapping does not list.
C9_Witness ==
    /\ request.route = "classify"
    /\ request.number_type = PhoneNumberType.VOICEMAIL
    /\ response.body = Some("UNKNOWN")

\* C10: the text given to the parser is "+" and the phone when the phone has
\* no leading "+" and the hint is missing or empty, and the phone as it came
\* otherwise; a ValidationResult's phone is that same text, on the success
\* path and on the parse-failure path.
C10_PlusCoercion ==
    (request.route \in {"lookup", "validate"} /\ calls.entered)
        => /\ LET p == TheVal(request.phone)
                  h == request.country
              IN  calls.text = IF p[1] # Plus /\ (h = None \/ h = Some(<<>>))
                               THEN <<Plus>> \o p ELSE p
           /\ calls.region = request.country
           /\ (request.route = "validate" /\ response.status = 200)
                => TheVal(response.body).phone = calls.text

\* C10's case: an empty hint, a phone without "+", and a parse failure whose
\* ValidationResult carries the prefixed phone.
C10_Witness ==
    /\ request.route = "validate"
    /\ request.country = Some(<<>>)
    /\ request.phone = Some(<<49, 52>>)
    /\ response.status = 200
    /\ TheVal(response.body).error # None
    /\ TheVal(response.body).phone = <<Plus, 49, 52>>

===========================================================================
